---- MODULE Spec2Model ----
(***************************************************************************)
(* A model of streamlit_app.py, the HVAC calculator: the heat-transfer     *)
(* "Calculate" handler (lines 76-135) and the psychrometric "Calculate     *)
(* Properties" handler (lines 157-192) of a Streamlit script that is run   *)
(* from its first line on every interaction.                               *)
(*                                                                         *)
(* Numbers.  The script computes with Python floats (binary floating       *)
(* point, round to nearest, ties to even).  The model keeps that           *)
(* arithmetic and shortens the significand to Precision bits (Python: 53); *)
(* the exponent is unbounded, so overflow to infinity and underflow to     *)
(* zero do not occur in the model, and the sign of a zero is not kept.     *)
(* A float is a record [k, m, e]: k = "fin" stands for m * 2^e with        *)
(* m = 0 or 2^(Precision-1) <= |m| < 2^Precision; k = "nan", "inf" and     *)
(* "ninf" are the values float() reads from "nan", "inf" and "-inf";       *)
(* k = "none" is Python's None.                                            *)
(*                                                                         *)
(* Texts.  Labels and messages are written in ASCII: without the emoji the  *)
(* script puts before them and with "dT", "rho", "." and "C" for the Greek *)
(* letters, the dot and the degree sign.                                   *)
(*                                                                         *)
(* Evaluation.  Python evaluates an expression once and binds the value to *)
(* a name.  Let(e, F) and Let2(e1, e2, F) do the same: they apply F to the *)
(* value of e, so that a name used several times is computed once.         *)
(***************************************************************************)
EXTENDS Integers, Sequences, FiniteSets, TLC

\* Bits of a float's significand in the model.
Precision == 12

\* F applied to the value of e (of e1 and e2).
Let(e, F(_)) == CHOOSE r \in {F(x) : x \in {e}} : TRUE

Let2(e1, e2, F(_, _)) == CHOOSE r \in {F(x, y) : x \in {e1}, y \in {e2}} : TRUE

----------------------------------------------------------------------------
\* Integer helpers of the float arithmetic.

RECURSIVE Pow2(_)
Pow2(n) == IF n <= 0 THEN 1 ELSE 2 * Pow2(n - 1)

RECURSIVE Pow10(_)
Pow10(n) == IF n <= 0 THEN 1 ELSE 10 * Pow10(n - 1)

RECURSIVE Pow5(_)
Pow5(n) == IF n <= 0 THEN 1 ELSE 5 * Pow5(n - 1)

Abs(n) == IF n < 0 THEN -n ELSE n

\* The number of bits of n >= 0 (0 for n = 0).
RECURSIVE BitLen(_)
BitLen(n) == IF n <= 0 THEN 0 ELSE 1 + BitLen(n \div 2)

\* A name of the script that no statement has assigned yet.
Unbound == [k |-> "unbound", m |-> 0, e |-> 0]

\* A Python int handed on as it is (the pressure, line 147).
PyInt(n) == [k |-> "int", m |-> n, e |-> 0]

None == [k |-> "none", m |-> 0, e |-> 0]
NaN  == [k |-> "nan",  m |-> 0, e |-> 0]
Inf  == [k |-> "inf",  m |-> 0, e |-> 0]
NInf == [k |-> "ninf", m |-> 0, e |-> 0]
Zero == [k |-> "fin",  m |-> 0, e |-> 0]

Fin(m, e) == [k |-> "fin", m |-> m, e |-> e]

Neg(x) ==
    Let(x, LAMBDA a :
        CASE a.k = "fin"  -> Fin(-a.m, a.e)
          [] a.k = "inf"  -> NInf
          [] a.k = "ninf" -> Inf
          [] OTHER        -> a)

\* The sign of a float that is not a NaN: -1, 0 or 1.
Sign(x) ==
    CASE x.k = "inf"  -> 1
      [] x.k = "ninf" -> -1
      [] OTHER        -> IF x.m < 0 THEN -1 ELSE IF x.m > 0 THEN 1 ELSE 0

\* n * 2^e for an integer n >= 0 of len bits, rounded to Precision bits,
\* ties to even.
RoundBits(n, e, len) ==
    IF n = 0 THEN Zero
    ELSE IF len <= Precision
    THEN Fin(n * Pow2(Precision - len), e - (Precision - len))
    ELSE LET s    == len - Precision
             quo  == n \div Pow2(s)
             rem  == n % Pow2(s)
             half == Pow2(s - 1)
             up   == rem > half \/ (rem = half /\ quo % 2 = 1)
         IN IF up /\ quo + 1 = Pow2(Precision)
            THEN Fin(Pow2(Precision - 1), e + s + 1)
            ELSE Fin(IF up THEN quo + 1 ELSE quo, e + s)

RoundShift(n, e) == Let2(n, e, LAMBDA nv, ev : RoundBits(nv, ev, BitLen(nv)))

\* (num / den) * 2^e for integers num >= 0 and den > 0, correctly rounded:
\* the quotient is taken with two bits more than the significand and one
\* more bit that says whether the division left a remainder.
RoundRatio(num, den, e) ==
    IF num = 0 THEN Zero
    ELSE Let(Precision + 2 + BitLen(den) - BitLen(num), LAMBDA want :
         LET sh  == IF want > 0 THEN want ELSE 0
             big == num * Pow2(sh)
         IN RoundShift(2 * (big \div den) + (IF big % den = 0 THEN 0 ELSE 1),
                       e - sh - 1))

\* Python's x * y on floats (and on a float and an int, the int converted).
FMul(x, y) ==
    Let2(x, y, LAMBDA a, b :
        CASE a.k = "nan" \/ b.k = "nan" -> NaN
          [] a.k \in {"inf", "ninf"} \/ b.k \in {"inf", "ninf"} ->
                IF Sign(a) * Sign(b) = 0 THEN NaN
                ELSE IF Sign(a) * Sign(b) > 0 THEN Inf ELSE NInf
          [] OTHER ->
                IF Sign(a) * Sign(b) < 0
                THEN Neg(RoundShift(Abs(a.m) * Abs(b.m), a.e + b.e))
                ELSE RoundShift(Abs(a.m) * Abs(b.m), a.e + b.e))

\* Python's x / y raises ZeroDivisionError exactly when y == 0 (whatever x is).
DivRaises(y) == Let(y, LAMBDA b : b.k = "fin" /\ b.m = 0)

\* Python's x / y on floats for y # 0.
FDiv(x, y) ==
    Let2(x, y, LAMBDA a, b :
        CASE a.k = "nan" \/ b.k = "nan" -> NaN
          [] a.k \in {"inf", "ninf"} ->
                IF b.k \in {"inf", "ninf"} THEN NaN
                ELSE IF Sign(a) * Sign(b) > 0 THEN Inf ELSE NInf
          [] b.k \in {"inf", "ninf"} -> Zero
          [] OTHER ->
                IF Sign(a) * Sign(b) < 0
                THEN Neg(RoundRatio(Abs(a.m), Abs(b.m), a.e - b.e))
                ELSE RoundRatio(Abs(a.m), Abs(b.m), a.e - b.e))

\* The float nearest to the decimal num / den (den > 0): a numeric literal
\* of the script, or the number float() reads from a decimal string.
Dec(num, den) ==
    IF num < 0 THEN Neg(RoundRatio(Abs(num), den, 0))
    ELSE RoundRatio(Abs(num), den, 0)

\* An int of the script used in float arithmetic.
FromInt(n) == Dec(n, 1)

----------------------------------------------------------------------------
\* Text a user can type into one of the three text inputs (lines 69-73).
InputTexts == {"", "  ", "abc", "nan", "inf", "0", "5", " 10 ", "100", "500", "-2.5"}

\* A strip() that takes nothing away.
StripNothing(text) == text

\* str.strip() on those texts: what is left once the blanks at both ends go.
Strip(text) ==
    CASE text \in {"", "  "} -> ""
      [] text = " 10 "       -> "10"
      [] OTHER               -> text

\* float(text): the float read (blanks at both ends are allowed), or
\* ValueError when the text is not a number.
Float(text) ==
    LET t == Strip(text) IN
    CASE t = "nan"  -> [raised |-> FALSE, val |-> NaN]
      [] t = "inf"  -> [raised |-> FALSE, val |-> Inf]
      [] t = "0"    -> [raised |-> FALSE, val |-> Dec(0, 1)]
      [] t = "5"    -> [raised |-> FALSE, val |-> Dec(5, 1)]
      [] t = "10"   -> [raised |-> FALSE, val |-> Dec(10, 1)]
      [] t = "100"  -> [raised |-> FALSE, val |-> Dec(100, 1)]
      [] t = "500"  -> [raised |-> FALSE, val |-> Dec(500, 1)]
      [] t = "-2.5" -> [raised |-> FALSE, val |-> Dec(-25, 10)]
      [] OTHER      -> [raised |-> TRUE,  val |-> None]

\* A conversion that takes a text float() refuses for a field left blank.
ParseInputLenient(text) ==
    IF Strip(text) # "" /\ ~Float(text).raised THEN Float(text)
    ELSE [raised |-> FALSE, val |-> None]

\* Lines 79-81: float(x) if x.strip() else None.
ParseInput(text) ==
    IF Strip(text) # "" THEN Float(text) ELSE [raised |-> FALSE, val |-> None]

\* A float as an f-string shows it with d decimals (":.2f", ":.4f", ":.1f"):
\* the sign, the integer part and the d decimals, rounded to nearest, ties
\* to even.
FormatFixed(x, d) ==
    Let(x, LAMBDA a :
    IF a.k # "fin" THEN [k |-> a.k, neg |-> FALSE, ip |-> 0, fp |-> 0, d |-> d]
    ELSE IF a.e >= 0
    THEN [k |-> "fin", neg |-> a.m < 0, ip |-> Abs(a.m) * Pow2(a.e), fp |-> 0, d |-> d]
    ELSE LET n    == -a.e
             far  == n > Precision
             ip   == IF far THEN 0 ELSE Abs(a.m) \div Pow2(n)
             rem  == IF far THEN Abs(a.m) ELSE Abs(a.m) % Pow2(n)
             \* rem / 2^n * 10^d = num / den, with 10^d = 5^d * 2^d
             num  == IF n >= d THEN rem * Pow5(d) ELSE rem * Pow5(d) * Pow2(d - n)
             tiny == n - d > Precision + 16
             den  == IF n >= d /\ ~tiny THEN Pow2(n - d) ELSE 1
             quo  == IF tiny THEN 0 ELSE num \div den
             r    == IF tiny THEN 0 ELSE num % den
             up   == 2 * r > den \/ (2 * r = den /\ quo % 2 = 1)
         IN Let(IF up THEN quo + 1 ELSE quo, LAMBDA fp :
            IF fp = Pow10(d)
            THEN [k |-> "fin", neg |-> a.m < 0, ip |-> ip + 1, fp |-> 0, d |-> d]
            ELSE [k |-> "fin", neg |-> a.m < 0, ip |-> ip, fp |-> fp, d |-> d]))

\* A number shown as it is written in the script ("{density}", "{c:.0f}").
Literal(num, den) == [k |-> "lit", neg |-> FALSE, ip |-> num, fp |-> den, d |-> 0]

----------------------------------------------------------------------------
\* Lines 25-34: the fluid properties database; a density is the decimal
\* literal num/den, a specific heat an int.
FluidTable ==
    [fluid \in {"Air", "Water"} |->
        IF fluid = "Air"
        THEN [density |-> <<1225, 1000>>, specific_heat |-> 1005]
        ELSE [density |-> <<9982, 10>>,   specific_heat |-> 4182]]

FluidTypes == {"Air", "Water"}

\* What the handler shows: one record per Streamlit call.
Element(el, label, text) == [el |-> el, label |-> label, text |-> text]

InvalidInputCount   == "Please provide exactly 2 values and leave 1 blank to solve for it."
InvalidNumericValue == "Please enter valid numerical values."
DivisionByZero      == "Cannot divide by zero. Please check your input values."

----------------------------------------------------------------------------
\* The heat-transfer mode, lines 37-135.

VARIABLES
    FLUID_PROPERTIES,   \* the table the script builds at lines 25-34
    inputs,             \* what the widgets and the library hold in this run
    q, v, delta_t, m,   \* the handler's names q, v, delta_t, m (W, L/s, K, kg/s)
    branch,             \* the solve branch that was entered: "Q", "V", "dT", "none"
    exc,                \* the exception raised inside the try block, "none" if none
    caught,             \* the except clause that took it, "none" or "uncaught"
    out,                \* what the handler has shown, in order
    calls,              \* the library calls made, in order
    ref,                \* an earlier run, remembered to compare a later one with
    rt                  \* the round trip through the solve branches

vars == <<FLUID_PROPERTIES, inputs, q, v, delta_t, m, branch, exc, caught, out,
          calls, ref, rt>>

\* Lines 79-81: the three conversions, in order; the first float() that fails
\* raises ValueError and leaves the later names unassigned.
HeatParse(q_input, v_input, delta_t_input) ==
    Let2(ParseInput(q_input), ParseInput(v_input), LAMBDA pq, pv :
    Let(ParseInput(delta_t_input), LAMBDA pd :
       [exc     |-> IF pq.raised \/ pv.raised \/ pd.raised
                    THEN "ValueError" ELSE "none",
        q       |-> IF pq.raised THEN Unbound
                    ELSE IF pq.val = None THEN None
                    ELSE FMul(pq.val, FromInt(1000)),
        v       |-> IF pq.raised \/ pv.raised THEN Unbound ELSE pv.val,
        delta_t |-> IF pq.raised \/ pv.raised \/ pd.raised THEN Unbound
                    ELSE pd.val]))

\* Line 88: sum([q is not None, v is not None, delta_t is not None]).
ProvidedValues(pq, pv, pd) ==
    (IF pq # None THEN 1 ELSE 0) + (IF pv # None THEN 1 ELSE 0)
        + (IF pd # None THEN 1 ELSE 0)

\* Lines 101-103: Q is missing.
SolveQ(pv, pd, density, c) ==
    Let(FDiv(FMul(pv, density), FromInt(1000)), LAMBDA m1 :
    Let(FMul(FMul(m1, c), pd), LAMBDA q1 :
       [branch |-> "Q", exc |-> "none", q |-> q1, v |-> pv, delta_t |-> pd,
        m |-> m1,
        shown |-> <<Element("metric", "Heat Transfer Rate (Q)",
                      <<FormatFixed(FDiv(q1, FromInt(1000)), 2),
                        FormatFixed(q1, 2)>>)>>]))

\* A solve for V that leaves out the conversion of kg/s into L/s.
SolveVUnconverted(pq, pd, density, c) ==
    IF DivRaises(FMul(c, pd))
    THEN [branch |-> "V", exc |-> "ZeroDivisionError", q |-> pq, v |-> None,
          delta_t |-> pd, m |-> Unbound, shown |-> <<>>]
    ELSE Let(FDiv(pq, FMul(c, pd)), LAMBDA m1 :
         Let(FDiv(m1, density), LAMBDA v1 :
            [branch |-> "V", exc |-> "none", q |-> pq, v |-> v1,
             delta_t |-> pd, m |-> m1,
             shown |-> <<Element("metric", "Volume Flow Rate (V)",
                           <<FormatFixed(v1, 2)>>)>>]))

\* Lines 106-108: V is missing; the division at line 106 raises when
\* c * delta_t is zero, and v and m are then left as they were.
SolveV(pq, pd, density, c) ==
    IF DivRaises(FMul(c, pd))
    THEN [branch |-> "V", exc |-> "ZeroDivisionError", q |-> pq, v |-> None,
          delta_t |-> pd, m |-> Unbound, shown |-> <<>>]
    ELSE Let(FDiv(pq, FMul(c, pd)), LAMBDA m1 :
         Let(FDiv(FMul(m1, FromInt(1000)), density), LAMBDA v1 :
            [branch |-> "V", exc |-> "none", q |-> pq, v |-> v1,
             delta_t |-> pd, m |-> m1,
             shown |-> <<Element("metric", "Volume Flow Rate (V)",
                           <<FormatFixed(v1, 2)>>)>>]))

\* A solve for dT that divides q by m and then multiplies by c: the
\* parentheses of line 112 left out.
SolveDeltaTUnparenthesised(pq, pv, density, c) ==
    Let(FDiv(FMul(pv, density), FromInt(1000)), LAMBDA m1 :
    IF DivRaises(FMul(m1, c))
    THEN [branch |-> "dT", exc |-> "ZeroDivisionError", q |-> pq, v |-> pv,
          delta_t |-> None, m |-> m1, shown |-> <<>>]
    ELSE Let(FMul(FDiv(pq, m1), c), LAMBDA d1 :
            [branch |-> "dT", exc |-> "none", q |-> pq, v |-> pv,
             delta_t |-> d1, m |-> m1,
             shown |-> <<Element("metric", "Temperature Difference (dT)",
                           <<FormatFixed(d1, 2)>>)>>]))

\* Lines 111-113: dT is missing; the division at line 112 raises when m * c
\* is zero, and delta_t is then left as it was.
SolveDeltaT(pq, pv, density, c) ==
    Let(FDiv(FMul(pv, density), FromInt(1000)), LAMBDA m1 :
    IF DivRaises(FMul(m1, c))
    THEN [branch |-> "dT", exc |-> "ZeroDivisionError", q |-> pq, v |-> pv,
          delta_t |-> None, m |-> m1, shown |-> <<>>]
    ELSE Let(FDiv(pq, FMul(m1, c)), LAMBDA d1 :
            [branch |-> "dT", exc |-> "none", q |-> pq, v |-> pv,
             delta_t |-> d1, m |-> m1,
             shown |-> <<Element("metric", "Temperature Difference (dT)",
                           <<FormatFixed(d1, 2)>>)>>]))

\* Lines 99-113: the if / elif / elif over the missing name.  The result
\* names the branch entered, the exception a division raised, the names as
\* the branch left them and the metric it showed.
SolveBranches(pq, pv, pd, density, c) ==
    IF pq = None THEN SolveQ(pv, pd, density, c)
    ELSE IF pv = None THEN SolveV(pq, pd, density, c)
    ELSE IF pd = None THEN SolveDeltaT(pq, pv, density, c)
    ELSE [branch |-> "none", exc |-> "none", q |-> pq, v |-> pv, delta_t |-> pd,
          m |-> Unbound, shown |-> <<>>]

\* Lines 116-117: m is computed again from v once v is known.
DerivedMass(pv, pm, density) ==
    IF pv # None THEN FDiv(FMul(pv, density), FromInt(1000)) ELSE pm

\* Lines 120-130: the complete set of values.
CompleteSet(pq, pv, pd, pm, props) ==
    << Element("markdown", "---", <<>>),
       Element("subheader", "Complete Set of Values:", <<>>),
       Element("write", "Q", <<FormatFixed(FDiv(pq, FromInt(1000)), 2),
                               FormatFixed(pq, 2)>>),
       Element("write", "V", <<FormatFixed(pv, 2)>>),
       Element("write", "m", <<FormatFixed(pm, 4)>>),
       Element("write", "rho", <<Literal(props.density[1], props.density[2])>>),
       Element("write", "c", <<Literal(props.specific_heat, 1)>>),
       Element("write", "dT", <<FormatFixed(pd, 2)>>) >>

\* Except clauses without the one for ZeroDivisionError.
HeatExceptValueOnly(e) ==
    CASE e = "ValueError" ->
            [caught |-> "ValueError",
             shown  |-> <<Element("error", InvalidNumericValue, <<>>)>>]
      [] e = "none" -> [caught |-> "none", shown |-> <<>>]
      [] OTHER      -> [caught |-> "uncaught", shown |-> <<>>]

\* Lines 132-135: the except clauses of the heat-transfer handler.
HeatExcept(e) ==
    CASE e = "ValueError" ->
            [caught |-> "ValueError",
             shown  |-> <<Element("error", InvalidNumericValue, <<>>)>>]
      [] e = "ZeroDivisionError" ->
            [caught |-> "ZeroDivisionError",
             shown  |-> <<Element("error", DivisionByZero, <<>>)>>]
      [] e = "none" -> [caught |-> "none", shown |-> <<>>]
      [] OTHER      -> [caught |-> "uncaught", shown |-> <<>>]

\* A count check that only refuses fewer than two values.
CountCheckAtLeast(provided_values) ==
    IF provided_values < 2
    THEN [solve |-> FALSE, shown |-> <<Element("error", InvalidInputCount, <<>>)>>]
    ELSE [solve |-> TRUE,  shown |-> <<Element("success", "Calculation Results:", <<>>)>>]

\* Lines 90-96: the count check, and the banner shown before the solve.
CountCheck(provided_values) ==
    IF provided_values # 2
    THEN [solve |-> FALSE, shown |-> <<Element("error", InvalidInputCount, <<>>)>>]
    ELSE [solve |-> TRUE,  shown |-> <<Element("success", "Calculation Results:", <<>>)>>]

\* Lines 52-53 and 84-85: the fluid's density and specific heat.
Density(props) == Dec(props.density[1], props.density[2])
SpecificHeat(props) == FromInt(props.specific_heat)

\* Lines 76-135: the body of "if st.button(Calculate)", for the fluid's
\* properties props.
HeatHandler(props, q_input, v_input, delta_t_input) ==
    Let(HeatParse(q_input, v_input, delta_t_input), LAMBDA p :
    IF p.exc # "none"
    THEN [q |-> p.q, v |-> p.v, delta_t |-> p.delta_t, m |-> Unbound,
          branch |-> "none", exc |-> p.exc,
          caught |-> HeatExcept(p.exc).caught,
          out |-> HeatExcept(p.exc).shown]
    ELSE Let(CountCheck(ProvidedValues(p.q, p.v, p.delta_t)), LAMBDA chk :
    IF ~chk.solve
    THEN [q |-> p.q, v |-> p.v, delta_t |-> p.delta_t, m |-> Unbound,
          branch |-> "none", exc |-> "none", caught |-> "none",
          out |-> chk.shown]
    ELSE Let2(Density(props), SpecificHeat(props), LAMBDA density, c :
         Let(SolveBranches(p.q, p.v, p.delta_t, density, c), LAMBDA s :
    IF s.exc # "none"
    THEN [q |-> s.q, v |-> s.v, delta_t |-> s.delta_t, m |-> s.m,
          branch |-> s.branch, exc |-> s.exc,
          caught |-> HeatExcept(s.exc).caught,
          out |-> chk.shown \o s.shown \o HeatExcept(s.exc).shown]
    ELSE Let(DerivedMass(s.v, s.m, density), LAMBDA m2 :
         [q |-> s.q, v |-> s.v, delta_t |-> s.delta_t, m |-> m2,
          branch |-> s.branch, exc |-> "none", caught |-> "none",
          out |-> chk.shown \o s.shown
                    \o CompleteSet(s.q, s.v, s.delta_t, m2, props)])))))

----------------------------------------------------------------------------
\* The psychrometric mode, lines 137-192.

RelativeHumidity == "Relative Humidity (%)"
WetBulbTemperature == "Wet Bulb Temperature (C)"
InputTypes == {RelativeHumidity, WetBulbTemperature}

\* The psychrolib functions the script calls (lines 161-170).
LibraryFunctions ==
    {"GetHumRatioFromRelHum", "GetHumRatioFromTWetBulb", "GetRelHumFromHumRatio",
     "GetTWetBulbFromHumRatio", "GetTDewPointFromHumRatio", "GetMoistAirEnthalpy",
     "GetMoistAirVolume"}

\* psychrolib is outside the script: a library is any choice of the calls
\* that raise and of the humidity ratio the others are answered for.
Library(fails, ratio) == [fails |-> fails, ratio |-> ratio]

\* What a psychrolib function returns when it does not raise: a humidity
\* ratio in kg/kg, a relative humidity as a fraction, temperatures in C,
\* an enthalpy in J/kg, a volume in m3/kg.
LibraryValue(fn, ratio) ==
    CASE fn \in {"GetHumRatioFromRelHum", "GetHumRatioFromTWetBulb"} -> ratio
      [] fn = "GetRelHumFromHumRatio"    -> IF ratio = Dec(1, 100) THEN Dec(5, 10)
                                                                   ELSE Dec(755, 1000)
      [] fn = "GetTWetBulbFromHumRatio"  -> Dec(179, 10)
      [] fn = "GetTDewPointFromHumRatio" -> Dec(139, 10)
      [] fn = "GetMoistAirEnthalpy"      -> FromInt(50500)
      [] OTHER                           -> Dec(858, 1000)

\* One call of the library: what was called with what, and what came back.
Invoke(call, library) ==
    [fn     |-> call.fn,
     args   |-> call.args,
     raised |-> call.fn \in library.fails,
     msg    |-> IF call.fn \in library.fails THEN call.fn ELSE "",
     ret    |-> IF call.fn \in library.fails THEN None
                ELSE LibraryValue(call.fn, library.ratio)]

\* A humidity-ratio call that hands the relative humidity on in percent.
HumRatioCallPercent(dry_bulb, pressure, input_type, rh, wet_bulb) ==
    IF input_type = RelativeHumidity
    THEN [fn   |-> "GetHumRatioFromRelHum",
          args |-> <<dry_bulb, rh, PyInt(pressure)>>]
    ELSE [fn   |-> "GetHumRatioFromTWetBulb",
          args |-> <<dry_bulb, wet_bulb, PyInt(pressure)>>]

\* Lines 160-163: the humidity-ratio call, by input type.
HumRatioCall(dry_bulb, pressure, input_type, rh, wet_bulb) ==
    IF input_type = RelativeHumidity
    THEN [fn   |-> "GetHumRatioFromRelHum",
          args |-> <<dry_bulb, FDiv(rh, FromInt(100)), PyInt(pressure)>>]
    ELSE [fn   |-> "GetHumRatioFromTWetBulb",
          args |-> <<dry_bulb, wet_bulb, PyInt(pressure)>>]

\* Lines 166-170: the five property calls, in the order of the script.
PropertyCalls(dry_bulb, hum_ratio, pressure) ==
    << [fn |-> "GetRelHumFromHumRatio",    args |-> <<dry_bulb, hum_ratio, PyInt(pressure)>>],
       [fn |-> "GetTWetBulbFromHumRatio",  args |-> <<dry_bulb, hum_ratio, PyInt(pressure)>>],
       [fn |-> "GetTDewPointFromHumRatio", args |-> <<dry_bulb, hum_ratio, PyInt(pressure)>>],
       [fn |-> "GetMoistAirEnthalpy",      args |-> <<dry_bulb, hum_ratio>>],
       [fn |-> "GetMoistAirVolume",        args |-> <<dry_bulb, hum_ratio, PyInt(pressure)>>] >>

\* The statements of the try block run in order; the first call that raises
\* ends the block.
RECURSIVE RunCalls(_, _)
RunCalls(plan, library) ==
    IF plan = <<>> THEN <<>>
    ELSE Let(Invoke(Head(plan), library), LAMBDA done :
            IF done.raised THEN <<done>>
            ELSE <<done>> \o RunCalls(Tail(plan), library))

\* Text put into a message as it is.
Str(text) == [k |-> text, neg |-> FALSE, ip |-> 0, fp |-> 0, d |-> 0]

PropertyCalculationError == "Error calculating properties: "

\* Lines 172-189: the banner and the seven metrics.
PsychroDisplay(dry_bulb, hum_ratio, made) ==
    Let(FMul(made[1].ret, FromInt(100)), LAMBDA rel_hum :
    LET wet_bulb_calc   == made[2].ret
        dew_point       == made[3].ret
        enthalpy        == made[4].ret
        specific_volume == made[5].ret
    IN << Element("success", "Calculated Properties:", <<>>),
          Element("metric", "Dry Bulb Temp", <<FormatFixed(dry_bulb, 2)>>),
          Element("metric", "Wet Bulb Temp", <<FormatFixed(wet_bulb_calc, 2)>>),
          Element("metric", "Dew Point", <<FormatFixed(dew_point, 2)>>),
          Element("metric", "Relative Humidity", <<FormatFixed(rel_hum, 1)>>),
          Element("metric", "Humidity Ratio", <<FormatFixed(hum_ratio, 6)>>),
          Element("metric", "Enthalpy",
                  <<FormatFixed(FDiv(enthalpy, FromInt(1000)), 2)>>),
          Element("metric", "Specific Volume", <<FormatFixed(specific_volume, 4)>>) >>)

\* An except clause too narrow for what the library raises.
PsychroExceptNarrow(msg) == [caught |-> "uncaught", shown |-> <<>>]

\* Lines 191-192: except Exception as e.
PsychroExcept(msg) ==
    [caught |-> "Exception",
     shown  |-> <<Element("error", PropertyCalculationError, <<Str(msg)>>)>>]

\* A try block that shows its banner before it makes the calls.
PsychroShownBannerFirst(made, display) ==
    IF made[Len(made)].raised
    THEN <<Element("success", "Calculated Properties:", <<>>)>>
            \o PsychroExcept(made[Len(made)].msg).shown
    ELSE display

\* Lines 158-192: the try block makes every call before it shows anything.
PsychroShown(made, display) ==
    IF made[Len(made)].raised
    THEN PsychroExcept(made[Len(made)].msg).shown
    ELSE display

\* Lines 157-192: the body of "if st.button(Calculate Properties)".
PsychroHandler(dry_bulb, pressure, input_type, rh, wet_bulb, library) ==
    Let(Invoke(HumRatioCall(dry_bulb, pressure, input_type, rh, wet_bulb), library),
        LAMBDA first :
    Let(IF first.raised THEN <<>>
        ELSE RunCalls(PropertyCalls(dry_bulb, first.ret, pressure), library),
        LAMBDA rest :
    Let2(<<first>> \o rest, (<<first>> \o rest)[1 + Len(rest)], LAMBDA made, last :
       [calls  |-> made,
        exc    |-> IF last.raised THEN "Exception" ELSE "none",
        caught |-> IF last.raised THEN PsychroExcept(last.msg).caught ELSE "none",
        out    |-> PsychroShown(made,
                      IF last.raised THEN <<>>
                      ELSE PsychroDisplay(dry_bulb, first.ret, rest))])))

----------------------------------------------------------------------------
\* Runs of the script.  Streamlit runs the whole script on every interaction:
\* a change of a widget runs it with no button pressed, a press of a Calculate
\* button runs it with the widgets as they are and that button true.

HeatTransfer == "Heat Transfer (Q = m.c.dT)"
Psychrometric == "Psychrometric Properties"
CalculationTypes == {HeatTransfer, Psychrometric}

\* The widgets as they are before the user touches them (lines 49, 69-73 and
\* 146-155); humidity is the one humidity input the page shows, the relative
\* humidity in percent or the wet-bulb temperature.
DefaultHeat ==
    [fluid_type |-> "Air", q_input |-> "", v_input |-> "", delta_t_input |-> ""]

DefaultHumidity(input_type) ==
    IF input_type = RelativeHumidity THEN Dec(500, 10) ELSE Dec(200, 10)

DefaultPsychro ==
    [dry_bulb |-> Dec(250, 10), pressure |-> 101325, input_type |-> RelativeHumidity,
     humidity |-> DefaultHumidity(RelativeHumidity)]

\* Values of the number inputs and answers of the library tried by the model.
DryBulbs   == {Dec(250, 10), Dec(-5, 1)}
Pressures  == {101325, 90000}
Humidities == {Dec(500, 10), Dec(200, 10), Dec(0, 1)}
Ratios     == {Dec(1, 100), Dec(15, 1000)}
\* The library answers every call, or one of its functions raises, or all do.
FailSets   == {{}} \cup {{fn} : fn \in LibraryFunctions} \cup {LibraryFunctions}
Libraries  == {Library(fails, ratio) : fails \in FailSets, ratio \in Ratios}

\* The library of a run that calls none.
NoLibrary == Library({}, Dec(1, 100))

NoRef == [set |-> FALSE]
NoRoundTrip == [phase |-> "idle"]

\* A run in which no Calculate button is pressed (lines 76 and 157 are false):
\* the page is drawn and no handler body runs.
Redraw(calculation_type, heat, psychro) ==
    /\ FLUID_PROPERTIES' = FluidTable
    /\ inputs' = [calculation_type |-> calculation_type, button |-> FALSE,
                  heat |-> heat, psychro |-> psychro, library |-> NoLibrary]
    /\ q' = Unbound /\ v' = Unbound /\ delta_t' = Unbound /\ m' = Unbound
    /\ branch' = "none" /\ exc' = "none" /\ caught' = "none"
    /\ out' = <<>>
    /\ calls' = <<>>

\* The first run of the script.
Init ==
    /\ FLUID_PROPERTIES = FluidTable
    /\ inputs = [calculation_type |-> HeatTransfer, button |-> FALSE,
                 heat |-> DefaultHeat, psychro |-> DefaultPsychro,
                 library |-> NoLibrary]
    /\ q = Unbound /\ v = Unbound /\ delta_t = Unbound /\ m = Unbound
    /\ branch = "none" /\ exc = "none" /\ caught = "none"
    /\ out = <<>>
    /\ calls = <<>>
    /\ ref = NoRef
    /\ rt = NoRoundTrip

\* Lines 15-18: the sidebar selectbox; the widgets of the mode that is left
\* are not drawn and start again from their defaults.
SelectCalculation(calculation_type) ==
    Redraw(calculation_type, DefaultHeat, DefaultPsychro)

\* Line 49: the fluid selectbox.
SelectFluid(fluid_type) ==
    /\ inputs.calculation_type = HeatTransfer
    /\ Redraw(HeatTransfer, [inputs.heat EXCEPT !.fluid_type = fluid_type],
              inputs.psychro)

\* Lines 69-73: one of the three text inputs is given a new text.
EditText(field, text) ==
    /\ inputs.calculation_type = HeatTransfer
    /\ Redraw(HeatTransfer, [inputs.heat EXCEPT ![field] = text], inputs.psychro)

\* Lines 146-155: one of the number inputs is given a new value.
EditNumber(field, value) ==
    /\ inputs.calculation_type = Psychrometric
    /\ Redraw(Psychrometric, inputs.heat, [inputs.psychro EXCEPT ![field] = value])

\* Line 150: the radio; the other humidity input is drawn, with its default.
SelectInputType(input_type) ==
    /\ inputs.calculation_type = Psychrometric
    /\ Redraw(Psychrometric, inputs.heat,
              [inputs.psychro EXCEPT !.input_type = input_type,
                                     !.humidity = DefaultHumidity(input_type)])

\* The run in which "Calculate" is pressed (line 76), with the texts the
\* inputs hold.
HeatCalculate ==
    /\ inputs.calculation_type = HeatTransfer
    /\ FLUID_PROPERTIES' = FluidTable
    /\ inputs' = [inputs EXCEPT !.button = TRUE, !.library = NoLibrary]
    /\ \E r \in {HeatHandler(FLUID_PROPERTIES'[inputs.heat.fluid_type],
                             inputs.heat.q_input, inputs.heat.v_input,
                             inputs.heat.delta_t_input)} :
          /\ q' = r.q /\ v' = r.v /\ delta_t' = r.delta_t /\ m' = r.m
          /\ branch' = r.branch /\ exc' = r.exc /\ caught' = r.caught
          /\ out' = r.out
    /\ calls' = <<>>

\* Lines 152-155: the humidity input the page shows is bound to rh or to
\* wet_bulb; the other name is not assigned.
NumberInput(input_type) ==
    IF inputs.psychro.input_type = input_type THEN inputs.psychro.humidity
    ELSE Unbound

\* The run in which "Calculate Properties" is pressed (line 157), with the
\* values the inputs hold and a library that behaves as `library` says.
PsychroCalculate(library) ==
    /\ inputs.calculation_type = Psychrometric
    /\ FLUID_PROPERTIES' = FluidTable
    /\ inputs' = [inputs EXCEPT !.button = TRUE, !.library = library]
    /\ \E r \in {PsychroHandler(inputs.psychro.dry_bulb, inputs.psychro.pressure,
                                inputs.psychro.input_type,
                                NumberInput(RelativeHumidity), 
                                NumberInput(WetBulbTemperature), library)} :
          /\ exc' = r.exc /\ caught' = r.caught
          /\ out' = r.out
          /\ calls' = r.calls
    /\ q' = Unbound /\ v' = Unbound /\ delta_t' = Unbound /\ m' = Unbound
    /\ branch' = "none"

TextFields == {"q_input", "v_input", "delta_t_input"}

Next ==
    \/ \E ct \in CalculationTypes : SelectCalculation(ct) /\ UNCHANGED <<ref, rt>>
    \/ \E fluid_type \in FluidTypes : SelectFluid(fluid_type) /\ UNCHANGED <<ref, rt>>
    \/ \E field \in TextFields, text \in InputTexts :
            EditText(field, text) /\ UNCHANGED <<ref, rt>>
    \/ \E value \in DryBulbs : EditNumber("dry_bulb", value) /\ UNCHANGED <<ref, rt>>
    \/ \E value \in Pressures : EditNumber("pressure", value) /\ UNCHANGED <<ref, rt>>
    \/ \E value \in Humidities : EditNumber("humidity", value) /\ UNCHANGED <<ref, rt>>
    \/ \E input_type \in InputTypes :
            SelectInputType(input_type) /\ UNCHANGED <<ref, rt>>
    \/ HeatCalculate /\ UNCHANGED <<ref, rt>>
    \/ \E library \in Libraries : PsychroCalculate(library) /\ UNCHANGED <<ref, rt>>

Spec == Init /\ [][Next]_vars

----------------------------------------------------------------------------
\* The round trip through the solve branches (lines 99-113): a triple
\* (Q, V, dT) is made by solving for Q, then one of its fields is blanked
\* and solved for again.

RoundTripValues ==
    {Dec(1, 1), Dec(2, 1), Dec(3, 1), Dec(5, 1), Dec(7, 1), Dec(10, 1),
     Dec(500, 1), Dec(1, 10), Dec(-25, 10)}

InitRT ==
    /\ FLUID_PROPERTIES = FluidTable
    /\ inputs = [calculation_type |-> HeatTransfer, button |-> FALSE,
                 heat |-> DefaultHeat, psychro |-> DefaultPsychro,
                 library |-> NoLibrary]
    /\ q = Unbound /\ v = Unbound /\ delta_t = Unbound /\ m = Unbound
    /\ branch = "none" /\ exc = "none" /\ caught = "none"
    /\ out = <<>>
    /\ calls = <<>>
    /\ ref = NoRef
    /\ \E fluid_type \in FluidTypes, pv \in RoundTripValues, pd \in RoundTripValues :
          rt = [phase |-> "inputs", fluid_type |-> fluid_type, q |-> None,
                v |-> pv, delta_t |-> pd, blanked |-> "none", solved |-> None]

\* The solve branches on the round trip's fluid.
SolveRT(pq, pv, pd) ==
    SolveBranches(pq, pv, pd, Density(FLUID_PROPERTIES[rt.fluid_type]),
                  SpecificHeat(FLUID_PROPERTIES[rt.fluid_type]))

\* Q is solved from V and dT: the triple satisfies Q = (V.density/1000).c.dT
\* as the script computes it.
SolveForQ ==
    /\ rt.phase = "inputs"
    /\ rt' = [rt EXCEPT !.phase = "triple", !.q = SolveRT(None, rt.v, rt.delta_t).q]

BlankQ ==
    /\ rt.phase = "triple"
    /\ rt' = [rt EXCEPT !.phase = "solved", !.blanked = "Q",
                        !.solved = SolveRT(None, rt.v, rt.delta_t).q]

BlankV ==
    /\ rt.phase = "triple"
    /\ rt' = [rt EXCEPT !.phase = "solved", !.blanked = "V",
                        !.solved = SolveRT(rt.q, None, rt.delta_t).v]

BlankDeltaT ==
    /\ rt.phase = "triple"
    /\ rt' = [rt EXCEPT !.phase = "solved", !.blanked = "dT",
                        !.solved = SolveRT(rt.q, rt.v, None).delta_t]

\* The round trip leaves the runs of the script alone.
RunsUnchanged ==
    UNCHANGED <<FLUID_PROPERTIES, inputs, q, v, delta_t, m, branch, exc, caught,
                out, calls, ref>>

NextRT ==
    \/ SolveForQ /\ RunsUnchanged
    \/ BlankQ /\ RunsUnchanged
    \/ BlankV /\ RunsUnchanged
    \/ BlankDeltaT /\ RunsUnchanged

SpecRT == InitRT /\ [][NextRT]_vars

----------------------------------------------------------------------------
\* Sequences of runs, with one earlier Calculate run remembered.

\* Texts and libraries of the sequences: a blank, a text that is no number
\* and a zero give every outcome of the heat-transfer handler; the library
\* answers every call, or fails the second or the last one.
SeqTexts == {"", "abc", "0"}
SeqLibraries == {Library(fails, Dec(1, 100)) :
                    fails \in {{}, {"GetRelHumFromHumRatio"}, {"GetMoistAirVolume"}}}

\* What a run leaves behind.
Snapshot ==
    [set |-> TRUE, inputs |-> inputs,
     result |-> <<q, v, delta_t, m, branch, exc, caught, out, calls>>]

\* The run just made is remembered (an observer's step: the script has no
\* such state).
Remember ==
    /\ inputs.button
    /\ ref' = Snapshot
    /\ UNCHANGED <<FLUID_PROPERTIES, inputs, q, v, delta_t, m, branch, exc, caught,
                   out, calls, rt>>

NextSeq ==
    \/ \E ct \in CalculationTypes : SelectCalculation(ct) /\ UNCHANGED <<ref, rt>>
    \/ \E fluid_type \in FluidTypes : SelectFluid(fluid_type) /\ UNCHANGED <<ref, rt>>
    \/ \E field \in TextFields, text \in SeqTexts :
            EditText(field, text) /\ UNCHANGED <<ref, rt>>
    \/ \E input_type \in InputTypes :
            SelectInputType(input_type) /\ UNCHANGED <<ref, rt>>
    \/ HeatCalculate /\ UNCHANGED <<ref, rt>>
    \/ \E library \in SeqLibraries : PsychroCalculate(library) /\ UNCHANGED <<ref, rt>>
    \/ Remember

SpecSeq == Init /\ [][NextSeq]_vars

----------------------------------------------------------------------------
\* Vocabulary of the properties, taken from their wording and not from the
\* handlers: which texts are blank, which are numbers, and what the page
\* shows.

\* Empty, or whitespace only.
BlankTexts == {"", "  "}

\* Texts that are a number for float(), and the number.
NumberTexts == {"nan", "inf", "0", "5", " 10 ", "100", "500", "-2.5"}

NumberOf(text) ==
    CASE text = "nan"  -> NaN
      [] text = "inf"  -> Inf
      [] text = "0"    -> Zero
      [] text = "5"    -> Fin(5 * Pow2(Precision - 3), 3 - Precision)
      [] text = " 10 " -> Fin(5 * Pow2(Precision - 3), 4 - Precision)
      [] text = "100"  -> Fin(25 * Pow2(Precision - 5), 7 - Precision)
      [] text = "500"  -> Fin(125 * Pow2(Precision - 7), 9 - Precision)
      [] text = "-2.5" -> Fin(-5 * Pow2(Precision - 3), 2 - Precision)
      [] OTHER         -> None

HeatPressed == inputs.button /\ inputs.calculation_type = HeatTransfer
PsychroPressed == inputs.button /\ inputs.calculation_type = Psychrometric

\* "Provided": non-empty and numerically parseable.
ProvidedFields == {f \in TextFields : inputs.heat[f] \in NumberTexts}
NonBlankFields == {f \in TextFields : inputs.heat[f] \notin BlankTexts}
UnparseableFields == NonBlankFields \ ProvidedFields

\* Two fields hold numbers and the third, `missing`, is blank.
TwoGiven(missing) ==
    /\ inputs.heat[missing] \in BlankTexts
    /\ \A f \in TextFields \ {missing} : inputs.heat[f] \in NumberTexts

\* What the page shows.
Shown(el) == {i \in 1..Len(out) : out[i].el = el}
ErrorsShown == {out[i].label : i \in Shown("error")}
Written(label) == {out[i].text : i \in {j \in Shown("write") : out[j].label = label}}
OnlyError(message) == out = <<Element("error", message, <<>>)>>
ResultShown ==
    /\ Shown("error") = {}
    /\ \E i \in Shown("subheader") : out[i].label = "Complete Set of Values:"

\* The number a field holds.
Given(field) == NumberOf(inputs.heat[field])

\* The fluid constants as the specification gives them.
RefDensity == IF inputs.heat.fluid_type = "Air" THEN Dec(1225, 1000) ELSE Dec(9982, 10)
RefC == IF inputs.heat.fluid_type = "Air" THEN FromInt(1005) ELSE FromInt(4182)

\* The error `message` is all the run shows about its end: one error element,
\* the last thing shown, and no value.
EndsWith(message) ==
    /\ Cardinality(Shown("error")) = 1
    /\ out[Len(out)] = Element("error", message, <<>>)
    /\ Shown("metric") = {} /\ Shown("write") = {} /\ Shown("subheader") = {}

----------------------------------------------------------------------------
\* C1 as it is worded: a heat-transfer Calculate run shows InvalidInputCount
\* exactly when the number of provided fields (non-empty and read by float())
\* is not two.
InvalidInputCountIffNotTwoProvided ==
    HeatPressed =>
        ((Cardinality(ProvidedFields) # 2) <=> (InvalidInputCount \in ErrorsShown))

\* C1, amended: a heat-transfer Calculate run whose number of provided fields
\* is not two shows InvalidInputCount, and nothing else, unless a non-blank
\* field cannot be read as a number (the conversion at lines 79-81 fails
\* before the count at line 88 is reached); a run with exactly two provided
\* fields never shows InvalidInputCount.
InvalidInputCountUnlessUnparseable ==
    HeatPressed =>
        /\ (Cardinality(ProvidedFields) # 2 /\ UnparseableFields = {})
                => OnlyError(InvalidInputCount)
        /\ UnparseableFields # {} => InvalidInputCount \notin ErrorsShown
        /\ Cardinality(ProvidedFields) = 2 => InvalidInputCount \notin ErrorsShown

\* All three fields hold numbers and the run is refused for its count.
ThreeProvidedRefused ==
    /\ HeatPressed
    /\ ProvidedFields = TextFields
    /\ OnlyError(InvalidInputCount)

----------------------------------------------------------------------------
\* The reference solve of the specification for the field `missing`, on the
\* numbers the two other fields hold; Q is entered in kW.
Reference(missing) ==
    Let2(RefDensity, RefC, LAMBDA density, c :
    CASE missing = "q_input" ->
            Let(FDiv(FMul(Given("v_input"), density), FromInt(1000)), LAMBDA rm :
               [q |-> FMul(FMul(rm, c), Given("delta_t_input")),
                v |-> Given("v_input"), delta_t |-> Given("delta_t_input"),
                m |-> rm, branch |-> "Q"])
      [] missing = "v_input" ->
            Let(FMul(Given("q_input"), FromInt(1000)), LAMBDA rq :
            Let(FDiv(FMul(FDiv(rq, FMul(c, Given("delta_t_input"))), FromInt(1000)),
                     density), LAMBDA rv :
               [q |-> rq, v |-> rv, delta_t |-> Given("delta_t_input"),
                m |-> FDiv(FMul(rv, density), FromInt(1000)), branch |-> "V"]))
      [] OTHER ->
            Let(FMul(Given("q_input"), FromInt(1000)), LAMBDA rq :
            Let(FDiv(FMul(Given("v_input"), density), FromInt(1000)), LAMBDA rm :
               [q |-> rq, v |-> Given("v_input"), delta_t |-> FDiv(rq, FMul(rm, c)),
                m |-> rm, branch |-> "dT"])))

\* The denominator of the solve for `missing` is zero: c.dT when V is
\* missing, m.c when dT is missing; the solve for Q divides by 1000 only.
ZeroDenominator(missing) ==
    CASE missing = "v_input" -> FMul(RefC, Given("delta_t_input")) = Zero
      [] missing = "delta_t_input" ->
            FMul(FDiv(FMul(Given("v_input"), RefDensity), FromInt(1000)), RefC) = Zero
      [] OTHER -> FALSE

\* C2: a heat-transfer Calculate run with exactly two fields that hold
\* numbers and a non-zero denominator ends with (Q, V, dT, m) equal to the
\* reference solve on the fluid's constants: the branch of the missing field
\* ran and no other, the two given values are kept (Q times 1000), m is
\* V.density/1000, and the complete set of values shows these numbers.
ResultEqualsReferenceSolve ==
    \A missing \in TextFields :
        (HeatPressed /\ TwoGiven(missing) /\ ~ZeroDenominator(missing)) =>
            Let(Reference(missing), LAMBDA r :
                /\ <<q, v, delta_t, m, branch>> = <<r.q, r.v, r.delta_t, r.m, r.branch>>
                /\ ResultShown
                /\ Cardinality(Shown("metric")) = 1
                /\ Written("Q") = {<<FormatFixed(FDiv(r.q, FromInt(1000)), 2),
                                     FormatFixed(r.q, 2)>>}
                /\ Written("V") = {<<FormatFixed(r.v, 2)>>}
                /\ Written("dT") = {<<FormatFixed(r.delta_t, 2)>>}
                /\ Written("m") = {<<FormatFixed(r.m, 4)>>})

\* The scenario of the specification: Air, V = 500 L/s, dT = 10 K, Q blank
\* gives m = 0.6125 kg/s and Q = 6.16 kW.
AirScenarioSolved ==
    /\ HeatPressed
    /\ inputs.heat = [fluid_type |-> "Air", q_input |-> "", v_input |-> "500",
                      delta_t_input |-> " 10 "]
    /\ branch = "Q"
    /\ \E shown \in Written("Q") : shown[1].ip = 6 /\ shown[1].fp = 16
    /\ \E shown \in Written("m") : shown[1].ip = 0 /\ shown[1].fp = 6125

----------------------------------------------------------------------------
\* C3: in a heat-transfer Calculate run with exactly two fields that hold
\* numbers, when V is missing and dT is zero, or dT is missing and V is zero
\* (whatever Q is), the run ends with the DivisionByZero error, the missing
\* name is left None and no value is shown for it; when Q is missing no
\* ZeroDivisionError is raised and no DivisionByZero error is shown.
DivisionByZeroOnZeroDenominator ==
    HeatPressed =>
        /\ (TwoGiven("v_input") /\ Given("delta_t_input") = Zero)
                => (EndsWith(DivisionByZero) /\ caught = "ZeroDivisionError" /\ v = None)
        /\ (TwoGiven("delta_t_input") /\ Given("v_input") = Zero)
                => (EndsWith(DivisionByZero) /\ caught = "ZeroDivisionError"
                        /\ delta_t = None)
        /\ TwoGiven("q_input")
                => (DivisionByZero \notin ErrorsShown /\ exc # "ZeroDivisionError")

\* The case of the specification: Q = 0, V missing, dT = 0.
ZeroOverZeroRefused ==
    /\ HeatPressed
    /\ inputs.heat.q_input = "0" /\ inputs.heat.v_input \in BlankTexts
    /\ inputs.heat.delta_t_input = "0"
    /\ DivisionByZero \in ErrorsShown

----------------------------------------------------------------------------
----------------------------------------------------------------------------
\* C5: a heat-transfer Calculate run that shows an error shows exactly one
\* error and no partial result: no success banner, no metric and no line of
\* the complete set of values.
NoPartialResultOnError ==
    (HeatPressed /\ Shown("error") # {}) =>
        /\ Cardinality(Shown("error")) = 1
        /\ Shown("success") = {} /\ Shown("metric") = {}
        /\ Shown("subheader") = {} /\ Shown("write") = {}

\* The success banner of line 96 stands above the DivisionByZero error.
BannerAboveError ==
    /\ HeatPressed
    /\ Len(out) = 2
    /\ out[1] = Element("success", "Calculation Results:", <<>>)
    /\ out[2] = Element("error", DivisionByZero, <<>>)

----------------------------------------------------------------------------
\* The value of the field the round trip blanked, as it was in the triple.
Blanked ==
    CASE rt.blanked = "Q" -> rt.q
      [] rt.blanked = "V" -> rt.v
      [] OTHER            -> rt.delta_t

\* a reproduces b within floating-point tolerance: both are finite and
\* |a - b| <= 9 * 2^-Precision * |b|, the room that the eight rounded
\* operations of a round trip (four to make Q, four to solve back) need.
Within(a, b) ==
    /\ a.k = "fin" /\ b.k = "fin"
    /\ Sign(a) = Sign(b)
    /\ \/ a = b
       \/ /\ a.m # 0 /\ b.m # 0
          /\ Abs(a.e - b.e) <= 1
          /\ LET low  == IF a.e < b.e THEN a.e ELSE b.e
                 am   == Abs(a.m) * Pow2(a.e - low)
                 bm   == Abs(b.m) * Pow2(b.e - low)
                 dist == Abs(am - bm)
             IN dist <= 36 /\ dist * Pow2(Precision) <= 9 * bm

----------------------------------------------------------------------------
\* The metric shown under `label`.
Metric(label) == {out[i].text : i \in {j \in Shown("metric") : out[j].label = label}}

\* How often the run called the library function fn.
Called(fn) == Cardinality({i \in 1..Len(calls) : calls[i].fn = fn})

\* The humidity-ratio function of the input type, and the humidity handed to
\* it: the relative humidity as a fraction, or the wet-bulb temperature.
HumRatioFunction ==
    IF inputs.psychro.input_type = RelativeHumidity
    THEN "GetHumRatioFromRelHum" ELSE "GetHumRatioFromTWetBulb"

HumidityArgument ==
    IF inputs.psychro.input_type = RelativeHumidity
    THEN FDiv(inputs.psychro.humidity, FromInt(100)) ELSE inputs.psychro.humidity

\* The six calls of a calculation, in the order of the specification.
CallOrder ==
    <<HumRatioFunction, "GetRelHumFromHumRatio", "GetTWetBulbFromHumRatio",
      "GetTDewPointFromHumRatio", "GetMoistAirEnthalpy", "GetMoistAirVolume">>

\* C7: a psychrometric calculation that succeeds makes exactly six library
\* calls: first the one humidity-ratio call of the input type (with the
\* relative humidity divided by 100, or with the wet-bulb temperature; the
\* other humidity-ratio function is not called), then each of the five
\* derivations once, each with the entered dry bulb, the humidity ratio the
\* first call returned and, enthalpy excepted, the entered pressure; the
\* relative humidity shown is the library's fraction times 100 and the
\* enthalpy shown is the library's value divided by 1000.
SixLibraryCalls ==
    (PsychroPressed /\ Shown("success") # {}) =>
        /\ Len(calls) = 6
        /\ \A i \in 1..6 : calls[i].fn = CallOrder[i] /\ ~calls[i].raised
        /\ \A fn \in LibraryFunctions :
                Called(fn) = IF \E i \in 1..6 : CallOrder[i] = fn THEN 1 ELSE 0
        /\ calls[1].args = <<inputs.psychro.dry_bulb, HumidityArgument,
                             PyInt(inputs.psychro.pressure)>>
        /\ \A i \in {2, 3, 4, 6} :
                calls[i].args = <<inputs.psychro.dry_bulb, calls[1].ret,
                                  PyInt(inputs.psychro.pressure)>>
        /\ calls[5].args = <<inputs.psychro.dry_bulb, calls[1].ret>>
        /\ Metric("Relative Humidity")
                = {<<FormatFixed(FMul(calls[2].ret, FromInt(100)), 1)>>}
        /\ Metric("Enthalpy") = {<<FormatFixed(FDiv(calls[5].ret, FromInt(1000)), 2)>>}
        /\ Metric("Humidity Ratio") = {<<FormatFixed(calls[1].ret, 6)>>}

\* 50 % relative humidity is handed on as 0.5, and the library's 0.5 and
\* 50500 J/kg are shown as 50.0 % and 50.50 kJ/kg.
RelativeHumidityCalculated ==
    /\ PsychroPressed
    /\ inputs.psychro.input_type = RelativeHumidity
    /\ inputs.psychro.humidity = Dec(50, 1)
    /\ Len(calls) = 6
    /\ calls[1].args[2] = Dec(5, 10)
    /\ \E shown \in Metric("Relative Humidity") : shown[1].ip = 50 /\ shown[1].fp = 0
    /\ \E shown \in Metric("Enthalpy") : shown[1].ip = 50 /\ shown[1].fp = 50

----------------------------------------------------------------------------
\* The first call of the calculation, in call order, that the library fails.
FirstFailure ==
    CallOrder[CHOOSE i \in 1..6 :
                /\ CallOrder[i] \in inputs.library.fails
                /\ \A j \in 1..(i - 1) : CallOrder[j] \notin inputs.library.fails]

\* C8: a psychrometric calculation in which one of its six library calls
\* fails, whichever it is, shows exactly one PropertyCalculationError message
\* that carries the failure of the first failing call, and nothing else: no
\* success banner and no property value, not even of the calls made before.
LibraryFailureShownOnce ==
    (PsychroPressed /\ \E i \in 1..6 : CallOrder[i] \in inputs.library.fails) =>
        /\ out = <<Element("error", PropertyCalculationError, <<Str(FirstFailure)>>)>>
        /\ caught = "Exception"
        /\ calls[Len(calls)].fn = FirstFailure /\ calls[Len(calls)].raised

\* The sixth call fails after five have answered.
LastCallFailed ==
    /\ PsychroPressed
    /\ inputs.library.fails = {"GetMoistAirVolume"}
    /\ Len(calls) = 6
    /\ Cardinality(Shown("error")) = 1

----------------------------------------------------------------------------
\* C9: over every sequence of runs of both modes, no error is fatal: no
\* exception leaves a handler uncaught, every Calculate run ends with a
\* result or an error shown, and after a run that ended with an error the
\* next Calculate run is accepted;
\* a run's outcome is decided by its own inputs (a run with the inputs of a
\* remembered earlier run has that run's outcome, whatever came between);
\* and the fluid table holds the same constants in every state.
RunsIndependent ==
    /\ caught # "uncaught"
    /\ inputs.button => out # <<>>
    /\ (HeatPressed /\ Shown("error") # {}) => ENABLED HeatCalculate
    /\ (PsychroPressed /\ Shown("error") # {})
            => ENABLED PsychroCalculate(inputs.library)
    /\ (ref.set /\ ref.inputs = inputs)
            => ref.result = <<q, v, delta_t, m, branch, exc, caught, out, calls>>
    /\ DOMAIN FLUID_PROPERTIES = {"Air", "Water"}
    /\ FLUID_PROPERTIES["Air"] = [density |-> <<1225, 1000>>, specific_heat |-> 1005]
    /\ FLUID_PROPERTIES["Water"] = [density |-> <<9982, 10>>, specific_heat |-> 4182]

\* A psychrometric run that failed is remembered, and a later heat-transfer
\* run has ended with a result.
ResultAfterFailure ==
    /\ ref.set
    /\ ref.inputs.calculation_type = Psychrometric
    /\ ref.result[6] = "Exception"
    /\ HeatPressed
    /\ ResultShown

----------------------------------------------------------------------------
\* The outcome the precedence of C10 gives the fields.
ExpectedOutcome ==
    IF UnparseableFields # {} THEN InvalidNumericValue
    ELSE IF Cardinality(NonBlankFields) # 2 THEN InvalidInputCount
    ELSE IF \E missing \in TextFields : TwoGiven(missing) /\ ZeroDenominator(missing)
         THEN DivisionByZero
    ELSE "result"

\* C10: every heat-transfer Calculate run ends in exactly one of four
\* outcomes, in this precedence, a field that is empty or of blanks only
\* counting as blank: InvalidNumericValue if a non-blank field is not a
\* number, however many fields are filled in; else InvalidInputCount, with no
\* solve branch run, if the number of non-blank fields is not two; else
\* DivisionByZero if the branch divides by zero; else a result.  No run shows
\* two kinds of error.
FourOutcomesInPrecedence ==
    HeatPressed =>
        /\ Cardinality(ErrorsShown) <= 1 /\ Cardinality(Shown("error")) <= 1
        /\ IF ExpectedOutcome = "result"
           THEN ResultShown /\ branch # "none"
           ELSE /\ ErrorsShown = {ExpectedOutcome}
                /\ Shown("subheader") = {} /\ Shown("write") = {}
        /\ ExpectedOutcome \in {InvalidNumericValue, InvalidInputCount}
                => (branch = "none" /\ Len(out) = 1)

\* A field of blanks only is the blank one: Q is solved for.
BlanksOnlySolvedFor ==
    /\ HeatPressed
    /\ inputs.heat.q_input = "  "
    /\ inputs.heat.v_input = "500" /\ inputs.heat.delta_t_input = " 10 "
    /\ branch = "Q"
    /\ ResultShown

====
